---- MODULE Spec2Model ----
(***************************************************************************)
(* research-manager (src/app.py): a Streamlit application over one SQLite  *)
(* database.  Every browser session runs main() once per interaction; one  *)
(* run of main() with one pressed button is one step of the model.  The    *)
(* database tables are shared by all sessions, the session state is        *)
(* private to each session.  SQLite serialises the transactions of the     *)
(* sessions, and a run holds no state of its own between its statements    *)
(* but what it has just read.                                              *)
(***************************************************************************)
EXTENDS Integers, Sequences, FiniteSets, TLC

VARIABLES
    users,      \* table users:     rows [id, username, password]
    synthesis,  \* table synthesis: rows [id, user_id, name]
    reaction,   \* table reaction:  rows [id, user_id, synthesis_id]
    results,    \* table results:   rows [id, reaction_id, user_id, graph, average_dodh]
    seq,        \* sqlite_sequence: the largest id ever given out, per table
    session,    \* st.session_state of every browser session
    last        \* what the latest run of main() did and rendered

vars == <<users, synthesis, reaction, results, seq, session, last>>

-----------------------------------------------------------------------------
(* The bound of the model and the sets the inputs are drawn from.          *)

MaxRows == 4    \* rows ever inserted into synthesis, reaction and results together

Sessions == {"s1", "s2"}
Usernames == {"", "ann", "bob"}
Passwords == {"", "pw", "zz"}
SignupPasswords == {"", "pw"}
Names == {"", "cat"}
Ids == 1..MaxRows

(* Python's None, as session_state['user_id'] holds it before a login.     *)
None == 0

Tables == {"users", "synthesis", "reaction", "results"}

-----------------------------------------------------------------------------
(* Session state, ids, and the record of a run.                            *)

initialize_session_state == [logged_in |-> FALSE, user_id |-> None, page |-> "Login"]

hash_password(password) == <<"sha256", password>>

(* The rows of a table, and the id a plain INTEGER PRIMARY KEY gives out:   *)
(* one more than the largest id in the table now.                          *)
Rows(table) ==
    IF table = "users" THEN users
    ELSE IF table = "synthesis" THEN synthesis
    ELSE IF table = "reaction" THEN reaction
    ELSE results

RowidId(table) ==
    LET ids == {row.id : row \in Rows(table)}
    IN IF ids = {} THEN 1
       ELSE (CHOOSE m \in ids : \A i \in ids : i <= m) + 1

(* INTEGER PRIMARY KEY AUTOINCREMENT: one more than the largest id the     *)
(* table has ever held, so the id of a deleted row is not given out again. *)
AutoincrementId(table) == seq[table] + 1

(* Python's truth value of a string, and a test that lets the empty string *)
(* pass.                                                                   *)
AnyString(str) == TRUE

Truthy(str) == str # ""

(* One emission of the page: st.success, st.error or st.metric (whose      *)
(* value, the formatted average, is not recorded).                         *)
Msg(w, text) == [w |-> w, text |-> text]
Metric == Msg("metric", "Average DoDH (%)")

(* The record of one run of main(): the session, the button, the id it     *)
(* acted on, the uploaded file and the fault of a pipeline run, the stages *)
(* of the pipeline that ran, and the emissions in the order they were      *)
(* made.                                                                   *)
Ran(s, op, id, in, stages, out) ==
    [s |-> s, op |-> op, id |-> id, in |-> in, stages |-> stages, out |-> out]

Did(s, op, id, out) == Ran(s, op, id, <<>>, <<>>, out)

-----------------------------------------------------------------------------
Init ==
    /\ users = {}
    /\ synthesis = {}
    /\ reaction = {}
    /\ results = {}
    /\ seq = [t \in Tables |-> 0]
    /\ session = [s \in Sessions |-> initialize_session_state]
    /\ last = Did("s1", "start", None, <<>>)

-----------------------------------------------------------------------------
(* The UNIQUE constraint on users.username, and a table without it.        *)
NeverTaken(username) == FALSE

UsernameTaken(username) == \E u \in users : u.username = username

(* signup(): the "Sign Up" button.  username is UNIQUE in the schema, so   *)
(* the INSERT of a taken name raises sqlite3.IntegrityError.               *)
signup(s, username, password) ==
    /\ ~session[s].logged_in
    /\ session[s].page = "Sign Up"
    /\ IF Truthy(username) /\ Truthy(password)
       THEN IF UsernameTaken(username)
            THEN /\ UNCHANGED <<users, seq, session>>
                 /\ last' = Ran(s, "signup", None, <<username, password>>, <<>>,
                                <<Msg("error", "username exists")>>)
            ELSE /\ users' = users \cup
                        {[id |-> AutoincrementId("users"),
                          username |-> username,
                          password |-> hash_password(password)]}
                 /\ seq' = [seq EXCEPT !["users"] = AutoincrementId("users")]
                 /\ session' = [session EXCEPT ![s].page = "Login"]
                 /\ last' = Ran(s, "signup", AutoincrementId("users"),
                                <<username, password>>, <<>>,
                                <<Msg("success", "signed up")>>)
       ELSE /\ UNCHANGED <<users, seq, session>>
            /\ last' = Ran(s, "signup", None, <<username, password>>, <<>>,
                           <<Msg("error", "fill all fields")>>)
    /\ UNCHANGED <<synthesis, reaction, results>>

(* signup(): the "Back to Login" button.                                   *)
signup_back(s) ==
    /\ ~session[s].logged_in
    /\ session[s].page = "Sign Up"
    /\ session' = [session EXCEPT ![s].page = "Login"]
    /\ last' = Did(s, "signup_back", None, <<>>)
    /\ UNCHANGED <<users, synthesis, reaction, results, seq>>

(* A login that looks the username up and does not compare the password.  *)
login_any_password(s, username, password) ==
    /\ ~session[s].logged_in
    /\ session[s].page = "Login"
    /\ IF Truthy(username) /\ Truthy(password)
       THEN IF \E u \in users : u.username = username
            THEN LET user == CHOOSE u \in users : u.username = username
                 IN /\ session' = [session EXCEPT ![s] =
                           [logged_in |-> TRUE, user_id |-> user.id,
                            page |-> "Synthesis"]]
                    /\ last' = Ran(s, "login", user.id, <<username, password>>,
                                   <<>>, <<Msg("success", "logged in")>>)
            ELSE /\ UNCHANGED session
                 /\ last' = Ran(s, "login", None, <<username, password>>, <<>>,
                                <<Msg("error", "wrong username or password")>>)
       ELSE /\ UNCHANGED session
            /\ last' = Ran(s, "login", None, <<username, password>>, <<>>,
                           <<Msg("error", "fill all fields")>>)
    /\ UNCHANGED <<users, synthesis, reaction, results, seq>>

(* login(): the "Login" button.                                            *)
login(s, username, password) ==
    /\ ~session[s].logged_in
    /\ session[s].page = "Login"
    /\ IF Truthy(username) /\ Truthy(password)
       THEN IF \E u \in users : u.username = username
                                /\ u.password = hash_password(password)
            THEN LET user == CHOOSE u \in users : u.username = username
                 IN /\ session' = [session EXCEPT ![s] =
                           [logged_in |-> TRUE, user_id |-> user.id,
                            page |-> "Synthesis"]]
                    /\ last' = Ran(s, "login", user.id, <<username, password>>,
                                   <<>>, <<Msg("success", "logged in")>>)
            ELSE /\ UNCHANGED session
                 /\ last' = Ran(s, "login", None, <<username, password>>, <<>>,
                                <<Msg("error", "wrong username or password")>>)
       ELSE /\ UNCHANGED session
            /\ last' = Ran(s, "login", None, <<username, password>>, <<>>,
                           <<Msg("error", "fill all fields")>>)
    /\ UNCHANGED <<users, synthesis, reaction, results, seq>>

(* login(): the "Sign Up" button.                                          *)
login_to_signup(s) ==
    /\ ~session[s].logged_in
    /\ session[s].page = "Login"
    /\ session' = [session EXCEPT ![s].page = "Sign Up"]
    /\ last' = Did(s, "login_to_signup", None, <<>>)
    /\ UNCHANGED <<users, synthesis, reaction, results, seq>>

(* render_logout(): the Logout link reloads the page at "/", which starts  *)
(* a fresh session.                                                        *)
render_logout(s) ==
    /\ session[s].logged_in
    /\ session' = [session EXCEPT ![s] = initialize_session_state]
    /\ last' = Did(s, "logout", None, <<>>)
    /\ UNCHANGED <<users, synthesis, reaction, results, seq>>

-----------------------------------------------------------------------------
(* main(), logged in: the sidebar radio picks the section whose handler    *)
(* runs, and the run stores the pick in session_state['page'].  A button   *)
(* of a section is pressed in a run that has that section picked already,  *)
(* so the handlers below leave 'page' as the run that picked it set it.    *)
(* main() dispatches on the radio's value and reads 'page' only while the  *)
(* session is logged out, so the handlers are not guarded by 'page': the   *)
(* tables and the renderings a run can reach are the same whether the pick *)
(* is a step of its own or not.                                            *)
Sections == {"Synthesis", "Reaction", "Results", "View Data"}

sidebar(s, section) ==
    /\ session[s].logged_in
    /\ session[s].page # section
    /\ session' = [session EXCEPT ![s].page = section]
    /\ last' = Did(s, "sidebar", None, <<>>)
    /\ UNCHANGED <<users, synthesis, reaction, results, seq>>

(* The rows inserted so far into the three data tables.                    *)
Inserted == seq["synthesis"] + seq["reaction"] + seq["results"]

(* synthesis_section(): the "Add Synthesis" button.                        *)
synthesis_section(s, name) ==
    /\ session[s].logged_in
    /\ LET user_id == session[s].user_id
       IN IF user_id # None /\ Truthy(name)
          THEN /\ Inserted < MaxRows
               /\ synthesis' = synthesis \cup
                      {[id |-> AutoincrementId("synthesis"),
                        user_id |-> user_id, name |-> name]}
               /\ seq' = [seq EXCEPT !["synthesis"] = AutoincrementId("synthesis")]
               /\ last' = Ran(s, "add_synthesis", AutoincrementId("synthesis"),
                              <<name>>, <<>>,
                              <<Msg("success", "Synthesis added!")>>)
          ELSE /\ UNCHANGED <<synthesis, seq>>
               /\ last' = Ran(s, "add_synthesis", None, <<name>>, <<>>,
                              <<Msg("error", "fill all fields")>>)
    /\ UNCHANGED <<session, users, reaction, results>>

-----------------------------------------------------------------------------
(* reaction_section(): the synthesis picker and the "Add Reaction" button. *)

AllSynthesis(user_id) == synthesis

(* SELECT id, date, name FROM synthesis WHERE user_id = ?                  *)
synthesis_options(user_id) == {row \in synthesis : row.user_id = user_id}

(* The selectbox label of a row, as the words split(" ") cuts it into, and *)
(* the id read back out of it: f"ID: {row[0]} - Date: ..." and             *)
(* int(label.split(" ")[1]).                                               *)
Label(id) == <<"ID:", id, "-">>
ExtractId(label) == label[2]

Labels == {Label(id) : id \in Ids}

reaction_section(s, selected) ==
    /\ session[s].logged_in
    /\ LET user_id == session[s].user_id
           options == synthesis_options(user_id)
       IN /\ options # {}
          /\ selected \in {Label(row.id) : row \in options}
          /\ Inserted < MaxRows
          /\ reaction' = reaction \cup
                 {[id |-> AutoincrementId("reaction"), user_id |-> user_id,
                   synthesis_id |-> ExtractId(selected)]}
          /\ seq' = [seq EXCEPT !["reaction"] = AutoincrementId("reaction")]
          /\ last' = Did(s, "add_reaction", AutoincrementId("reaction"),
                         <<Msg("success", "Reaction added!")>>)
    /\ UNCHANGED <<session, users, synthesis, results>>

(* reaction_section() with no synthesis of the user's to pick.             *)
reaction_section_none(s) ==
    /\ session[s].logged_in
    /\ synthesis_options(session[s].user_id) = {}
    /\ last' = Did(s, "add_reaction", None,
                   <<Msg("error", "No synthesis data available")>>)
    /\ UNCHANGED <<session, users, synthesis, reaction, results, seq>>

-----------------------------------------------------------------------------
(* The uploaded file and the stages of the result-processing pipeline of   *)
(* result_section().                                                       *)

window_length == 11
polyorder == 2
Threshold == 1
NaN == -1               \* an empty cell of the sheet

TimeColumn == "Time on stream (h)"
MetricColumn == "DoDH(%)"

(* An uploaded file: whether it is a workbook pd.read_excel can parse, the *)
(* columns of its sheet, and the sheet's n rows: times t0, t0+1, ...; the  *)
(* metric rises and falls around level; hole is the row whose metric cell  *)
(* is empty (0: none).                                                     *)
File(ok, cols, n, t0, level, hole) ==
    [parse_ok |-> ok, columns |-> cols, n |-> n, t0 |-> t0, level |-> level,
     hole |-> hole]

BothColumns == {TimeColumn, MetricColumn, "Note"}

(* The sample uploads.  Sheets that keep 0, 1, 10, 11 and 12 samples: the  *)
(* one row of the first is at time 0; the longer ones start at time 0      *)
(* and, level 50, have an empty metric cell in their second row; the sheet *)
(* at level 80 keeps exactly the 11 samples of one smoothing window.       *)
(* Sheets without a required column, and a file that is no workbook.       *)
Shapes == {<<1, 0, 0>>, <<2, 0, 0>>, <<window_length + 1, 0, 2>>,
           <<window_length + 3, 0, 2>>}

Sheets ==
    {File(TRUE, BothColumns, sh[1], sh[2], 50, sh[3]) : sh \in Shapes}
    \cup {File(TRUE, BothColumns, window_length + 1, 0, 80, 0)}

BadSheets ==
    {File(TRUE, cols, window_length + 1, 0, 50, 0) :
        cols \in {{TimeColumn, "Note"}, {MetricColumn}}}
    \cup {File(FALSE, {}, 0, 0, 0, 0)}

Uploads == Sheets \cup BadSheets

(* What the environment does to a run: nothing, an exception raised while  *)
(* the figure is drawn, an exception raised by the INSERT.                 *)
Faults == {"none", "render", "write"}

(* pd.read_excel(uploaded_file): the rows of the sheet.                    *)
read_excel(f) ==
    [i \in 1..f.n |-> [t |-> f.t0 + i - 1,
                       d |-> IF i = f.hole THEN NaN ELSE f.level + ((i * i) % 7)]]

(* 'Time on stream (h)' in data.columns and 'DoDH(%)' in data.columns      *)
has_either_column(f) == TimeColumn \in f.columns \/ MetricColumn \in f.columns

has_columns(f) == TimeColumn \in f.columns /\ MetricColumn \in f.columns

(* data[['Time on stream (h)', 'DoDH(%)']].dropna()                        *)
dropna(rows) == SelectSeq(rows, LAMBDA r : r.t # NaN /\ r.d # NaN)

(* valid_indices = time_on_stream >= 1, applied to both arrays.            *)
all_indices(rows) == rows

(* A mask that drops the samples taken at the threshold itself.            *)
above_threshold(rows) == SelectSeq(rows, LAMBDA r : r.t > Threshold)

valid_indices(rows) == SelectSeq(rows, LAMBDA r : r.t >= Threshold)

time_on_stream(rows) == [i \in 1..Len(rows) |-> rows[i].t]
dodh(rows) == [i \in 1..Len(rows) |-> rows[i].d]

RECURSIVE Sum(_)
Sum(xs) == IF xs = <<>> THEN 0 ELSE Head(xs) + Sum(Tail(xs))

RECURSIVE Gcd(_, _)
Gcd(a, b) == IF b = 0 THEN a ELSE Gcd(b, a % b)

(* savgol_filter(x, window_length=11, polyorder=2), mode='interp': every   *)
(* output is the value of the least-squares parabola through a window of   *)
(* 11 samples; SG[k] holds the weights, times SGDen, of the parabola's     *)
(* value at the k-th position of its window.  The middle of the signal     *)
(* uses the centre (k = 6) of the window around each sample, the first and *)
(* the last 5 samples use the first and the last window.  A signal shorter *)
(* than the window raises ValueError.                                      *)
SGDen == 2145
SG == << <<1245, 810, 450, 165, -45, -180, -240, -225, -135, 30, 270>>,
         <<810, 597, 414, 261, 138, 45, -18, -51, -54, -27, 30>>,
         <<450, 414, 373, 327, 276, 220, 159, 93, 22, -54, -135>>,
         <<165, 261, 327, 363, 369, 345, 291, 207, 93, -51, -225>>,
         <<-45, 138, 276, 369, 417, 420, 378, 291, 159, -18, -240>>,
         <<-180, 45, 220, 345, 420, 445, 420, 345, 220, 45, -180>>,
         <<-240, -18, 159, 291, 378, 420, 417, 369, 276, 138, -45>>,
         <<-225, -51, 93, 207, 291, 345, 369, 363, 327, 261, 165>>,
         <<-135, -54, 22, 93, 159, 220, 276, 327, 373, 414, 450>>,
         <<30, -27, -54, -51, -18, 45, 138, 261, 414, 597, 810>>,
         <<270, 30, -135, -225, -240, -180, -45, 165, 450, 810, 1245>> >>

Dot(w, xs, from) == Sum([j \in 1..window_length |-> w[j] * xs[from + j - 1]])

Smoothed(xs) ==
    LET n == Len(xs)
        half == window_length \div 2
    IN [i \in 1..n |->
          IF i <= half THEN Dot(SG[i], xs, 1)
          ELSE IF i > n - half
               THEN Dot(SG[window_length - (n - i)], xs, n - window_length + 1)
               ELSE Dot(SG[half + 1], xs, i - half)]

(* What a filter that pads a short signal instead of raising returns.      *)
savgol_filter_padding(xs) ==
    IF Len(xs) < window_length
    THEN [raised |-> FALSE, y |-> [i \in 1..Len(xs) |-> SGDen * xs[i]]]
    ELSE [raised |-> FALSE, y |-> Smoothed(xs)]

(* The smoothed signal, every value times SGDen.                           *)
savgol_filter(xs) ==
    IF Len(xs) < window_length
    THEN [raised |-> TRUE, y |-> <<>>]
    ELSE [raised |-> FALSE, y |-> Smoothed(xs)]

(* The mean of the smoothed signal, as it would come out if the average   *)
(* were taken after the smoothing.                                         *)
mean_of_smoothed(xs) ==
    LET total == Sum(Smoothed(xs))
        n == SGDen * Len(xs)
        g == Gcd(total, n)
    IN [num |-> total \div g, den |-> n \div g]

(* dodh.mean(): the exact quotient Sum / Len, in lowest terms.             *)
mean(xs) ==
    LET g == Gcd(Sum(xs), Len(xs))
    IN [num |-> Sum(xs) \div g, den |-> Len(xs) \div g]

NoAvg == [num |-> 0, den |-> 0]

(* fig: ax.plot(time_on_stream, smoothed_dodh).                            *)
plot(x, y) == [x |-> x, y |-> y]
NoFig == plot(<<>>, <<>>)

(* graph.savefig(buffer, format='png'); buffer.read()                      *)
savefig(fig) == <<"png", fig>>

(* The messages of st.error in result_section().                           *)
ParseError == Msg("error", "An error occurred: File is not a zip file")
MissingColumns ==
    Msg("error", "The file must contain 'Time on stream (h)' and 'DoDH(%)' columns.")
EmptyData == Msg("error", "Filtered data is empty after applying time threshold.")
WindowTooLong ==
    Msg("error", "An error occurred: If mode is 'interp', window_length must be less than or equal to the size of x.")
RenderError == Msg("error", "An error occurred: render")
WriteError == Msg("error", "An error occurred: database is locked")
Saved == Msg("success", "Results saved!")

(* An outcome that goes on to the write after a failure of the rendering   *)
(* has been reported.                                                      *)
OutcomeCarriesOn(stages, out, save, avg, fig) ==
    [stages |-> stages, out |-> out,
     save |-> save \/ out = <<Metric, RenderError>>,
     average_dodh |-> avg, fig |-> fig]

Outcome(stages, out, save, avg, fig) ==
    [stages |-> stages, out |-> out, save |-> save,
     average_dodh |-> avg, fig |-> fig]

(* The try block of result_section(), lines 264-300, up to the call of     *)
(* save_result_to_db: the stages it runs on one uploaded file, what it     *)
(* renders, and whether it reaches the call, with which average and        *)
(* figure.                                                                 *)
pipeline(f, fault) ==
    LET kept == valid_indices(dropna(read_excel(f)))
        xs == dodh(kept)
        smoothed_dodh == savgol_filter(xs)
    IN IF ~f.parse_ok
       THEN Outcome(<<"parse">>, <<ParseError>>, FALSE, NoAvg, NoFig)
       ELSE IF ~has_columns(f)
       THEN Outcome(<<"parse", "columns">>, <<MissingColumns>>, FALSE, NoAvg, NoFig)
       ELSE IF ~(Len(time_on_stream(kept)) > 0 /\ Len(xs) > 0)
       THEN Outcome(<<"parse", "columns", "dropna", "filter">>, <<EmptyData>>,
                    FALSE, NoAvg, NoFig)
       ELSE IF smoothed_dodh.raised
       THEN Outcome(<<"parse", "columns", "dropna", "filter", "average", "metric",
                      "smooth">>,
                    <<Metric, WindowTooLong>>, FALSE, NoAvg, NoFig)
       ELSE IF fault = "render"
       THEN Outcome(<<"parse", "columns", "dropna", "filter", "average", "metric",
                      "smooth", "render">>,
                    <<Metric, RenderError>>, FALSE, NoAvg, NoFig)
       ELSE Outcome(<<"parse", "columns", "dropna", "filter", "average", "metric",
                      "smooth", "render">>,
                    <<Metric>>, TRUE, mean(xs),
                    plot(time_on_stream(kept), smoothed_dodh.y))

-----------------------------------------------------------------------------
(* save_result_to_db(): INSERT OR REPLACE INTO results (reaction_id,       *)
(* user_id, graph, average_dodh).  The statement names no id, so the row   *)
(* gets a fresh one; OR REPLACE removes the rows that collide with the new *)
(* row on a uniqueness constraint, and the only one the table declares is  *)
(* its primary key id.                                                     *)
Conflicts(old, new) == old.id = new.id

InsertOrReplace(rows, new) == {old \in rows : ~Conflicts(old, new)} \cup {new}

(* A write that stores the new average beside the graph the reaction had.  *)
ResultRowOldGraph(id, reaction_id, user_id, fig, average_dodh) ==
    [id |-> id, reaction_id |-> reaction_id, user_id |-> user_id,
     graph |-> IF \E r \in results : r.reaction_id = reaction_id
               THEN (CHOOSE r \in results : r.reaction_id = reaction_id).graph
               ELSE savefig(fig),
     average_dodh |-> average_dodh]

ResultRow(id, reaction_id, user_id, fig, average_dodh) ==
    [id |-> id, reaction_id |-> reaction_id, user_id |-> user_id,
     graph |-> savefig(fig), average_dodh |-> average_dodh]

save_result_to_db(reaction_id, user_id, fig, average_dodh) ==
    /\ results' = InsertOrReplace(results,
                      ResultRow(AutoincrementId("results"), reaction_id, user_id,
                                fig, average_dodh))
    /\ seq' = [seq EXCEPT !["results"] = AutoincrementId("results")]

(* One row of reaction JOIN synthesis ON reaction.synthesis_id =           *)
(* synthesis.id.                                                           *)
Joined(r) ==
    LET sy == CHOOSE row \in synthesis : row.id = r.synthesis_id
    IN [id |-> r.id, user_id |-> r.user_id,
        synthesis_user_id |-> sy.user_id, name |-> sy.name]

AllReactions(user_id) ==
    {Joined(r) : r \in {row \in reaction :
                          \E sy \in synthesis : sy.id = row.synthesis_id}}

(* SELECT reaction.id, ..., synthesis.name FROM reaction JOIN synthesis    *)
(* ON reaction.synthesis_id = synthesis.id WHERE reaction.user_id = ?      *)
reaction_options(user_id) ==
    {Joined(r) : r \in {row \in reaction :
                          /\ row.user_id = user_id
                          /\ \E sy \in synthesis : sy.id = row.synthesis_id}}

(* The number of samples of a sheet that have both values and a time of   *)
(* at least the threshold: what lines 267-276 keep of it.                  *)
Retained(f) ==
    Cardinality({i \in 1..f.n : i # f.hole /\ f.t0 + i - 1 >= Threshold})

(* The runs of the pipeline on the sample uploads; a fault strikes a run   *)
(* that gets as far as drawing the figure.                                 *)
Inputs == (Uploads \X {"none"}) \cup
          ({f \in Uploads : pipeline(f, "none").save} \X Faults)

Run == [in \in Inputs |-> pipeline(in[1], in[2])]

(* result_section(): a reaction picked in the selectbox and a file put in  *)
(* the uploader.  Every exception of the try block, the ones raised by the     *)
(* INSERT included, ends the run in st.error with nothing committed.       *)
result_section(s, selected) ==
    /\ session[s].logged_in
    /\ LET user_id == session[s].user_id
           options == reaction_options(user_id)
           reaction_id == ExtractId(selected)
       IN /\ options # {}
          /\ selected \in {Label(row.id) : row \in options}
          /\ \E in \in Inputs :
                LET run == Run[in]
                IN IF run.save /\ in[2] # "write"
                   THEN /\ Inserted < MaxRows
                        /\ save_result_to_db(reaction_id, user_id, run.fig,
                                             run.average_dodh)
                        /\ last' = Ran(s, "run", reaction_id, in,
                                       run.stages \o <<"write">>,
                                       run.out \o <<Saved>>)
                   ELSE /\ UNCHANGED <<results, seq>>
                        /\ last' = IF run.save
                                   THEN Ran(s, "run", reaction_id, in,
                                            run.stages \o <<"write">>,
                                            run.out \o <<WriteError>>)
                                   ELSE Ran(s, "run", reaction_id, in,
                                            run.stages, run.out)
    /\ UNCHANGED <<session, users, synthesis, reaction>>

(* result_section() with no reaction of the user's to pick.                *)
result_section_none(s) ==
    /\ session[s].logged_in
    /\ reaction_options(session[s].user_id) = {}
    /\ last' = Did(s, "run", None, <<Msg("error", "No reaction data available")>>)
    /\ UNCHANGED <<session, users, synthesis, reaction, results, seq>>

-----------------------------------------------------------------------------
(* view_data_section(): the "Delete Synthesis <id>" button of a listed     *)
(* row.  One button is pressed per run of the script, so the list of ids   *)
(* to delete holds one id.                                                 *)

(* DELETE FROM <table> WHERE id = ?                                        *)
DeleteById(rows, id) == {row \in rows : row.id # id}

(* The delete as a schema with ON DELETE CASCADE would carry it out.       *)
view_data_delete_synthesis_cascade(s, synthesis_id) ==
    /\ session[s].logged_in
    /\ synthesis_id \in {row.id : row \in synthesis_options(session[s].user_id)}
    /\ synthesis' = DeleteById(synthesis, synthesis_id)
    /\ reaction' = {row \in reaction : row.synthesis_id # synthesis_id}
    /\ last' = Did(s, "delete_synthesis", synthesis_id,
                   <<Msg("success", "Deleted synthesis ID(s)")>>)
    /\ UNCHANGED <<session, users, results, seq>>

view_data_delete_synthesis(s, synthesis_id) ==
    /\ session[s].logged_in
    /\ synthesis_id \in {row.id : row \in synthesis_options(session[s].user_id)}
    /\ synthesis' = DeleteById(synthesis, synthesis_id)
    /\ last' = Did(s, "delete_synthesis", synthesis_id,
                   <<Msg("success", "Deleted synthesis ID(s)")>>)
    /\ UNCHANGED <<session, users, reaction, results, seq>>

(* view_data_section(): the "Delete Reaction <id>" button of a listed row. *)
view_data_delete_reaction(s, reaction_id) ==
    /\ session[s].logged_in
    /\ reaction_id \in {row.id : row \in reaction_options(session[s].user_id)}
    /\ reaction' = DeleteById(reaction, reaction_id)
    /\ last' = Did(s, "delete_reaction", reaction_id,
                   <<Msg("success", "Deleted reaction ID(s)")>>)
    /\ UNCHANGED <<session, users, synthesis, results, seq>>

-----------------------------------------------------------------------------
(* The application from its first start.                                   *)
Next ==
    \/ \E s \in Sessions, u \in Usernames, p \in SignupPasswords : signup(s, u, p)
    \/ \E s \in Sessions : signup_back(s)
    \/ \E s \in Sessions, u \in Usernames, p \in Passwords : login(s, u, p)
    \/ \E s \in Sessions : login_to_signup(s)
    \/ \E s \in Sessions : render_logout(s)
    \/ \E s \in Sessions, section \in Sections : sidebar(s, section)
    \/ \E s \in Sessions, n \in Names : synthesis_section(s, n)
    \/ \E s \in Sessions, l \in Labels : reaction_section(s, l)
    \/ \E s \in Sessions : reaction_section_none(s)
    \/ \E s \in Sessions, l \in Labels : result_section(s, l)
    \/ \E s \in Sessions : result_section_none(s)
    \/ \E s \in Sessions, id \in Ids : view_data_delete_synthesis(s, id)
    \/ \E s \in Sessions, id \in Ids : view_data_delete_reaction(s, id)

Spec == Init /\ [][Next]_vars

(* The application in use: ann and bob have signed up and each is logged   *)
(* in, in a session of their own, and they work on their data.             *)
InitData ==
    /\ users = {[id |-> 1, username |-> "ann", password |-> hash_password("pw")],
                [id |-> 2, username |-> "bob", password |-> hash_password("pw")]}
    /\ synthesis = {}
    /\ reaction = {}
    /\ results = {}
    /\ seq = [t \in Tables |-> IF t = "users" THEN 2 ELSE 0]
    /\ session = [s \in Sessions |->
                    [logged_in |-> TRUE, user_id |-> IF s = "s1" THEN 1 ELSE 2,
                     page |-> "Synthesis"]]
    /\ last = Ran("s2", "login", 2, <<"bob", "pw">>, <<>>,
               <<Msg("success", "logged in")>>)

NextData ==
    \/ \E s \in Sessions, n \in Names : synthesis_section(s, n)
    \/ \E s \in Sessions, l \in Labels : reaction_section(s, l)
    \/ \E s \in Sessions : reaction_section_none(s)
    \/ \E s \in Sessions, l \in Labels : result_section(s, l)
    \/ \E s \in Sessions : result_section_none(s)
    \/ \E s \in Sessions, id \in Ids : view_data_delete_synthesis(s, id)
    \/ \E s \in Sessions, id \in Ids : view_data_delete_reaction(s, id)

SpecData == InitData /\ [][NextData]_vars

-----------------------------------------------------------------------------
(* The properties of the specification, stated over the runs of SpecData.  *)

(* A run of the result pipeline on an uploaded file, what it rendered, the *)
(* stages it went through, and whether it ended in "Results saved!".       *)
IsRun(l) == l.op = "run" /\ l.in # <<>>
Emitted(l) == {l.out[i] : i \in DOMAIN l.out}
StagesOf(l) == {l.stages[i] : i \in DOMAIN l.stages}
Succeeded(l) == IsRun(l) /\ Saved \in Emitted(l)

(* The kinds of upload the properties tell apart.                          *)
Complete(f) ==
    f.parse_ok /\ TimeColumn \in f.columns /\ MetricColumn \in f.columns
LacksColumn(f) ==
    f.parse_ok /\ (TimeColumn \notin f.columns \/ MetricColumn \notin f.columns)
EmptyUpload(f) == Complete(f) /\ Retained(f) = 0
ShortUpload(f) == Complete(f) /\ Retained(f) \in 1..(window_length - 1)

(* C1: after any successful runs, the results table holds exactly one row  *)
(* for each reaction_id that had a successful run; no earlier row of that  *)
(* reaction remains.                                                       *)
OneResultPerReaction ==
    \A r1, r2 \in results : r1.reaction_id = r2.reaction_id => r1 = r2

(* The average and the graph of one and the same run.                      *)
WholeRuns ==
    {[average_dodh |-> Run[in].average_dodh, graph |-> savefig(Run[in].fig)] :
        in \in {i \in Inputs : Run[i].save}}
Whole(r) ==
    [average_dodh |-> r.average_dodh, graph |-> r.graph] \in WholeRuns

(* C2: a run is atomic for the results table: a run that succeeds adds one *)
(* row, for the picked reaction, holding the average and the graph of      *)
(* that run's upload; a run that fails at any stage leaves the table as it *)
(* was; and no row ever holds the average of one run beside the graph of   *)
(* another, or only one of the two.                                        *)
RunIsAtomic ==
    [][/\ \A r \in results' : Whole(r)
       /\ IsRun(last') =>
            IF Succeeded(last')
            THEN \E r \in results' \ results :
                    /\ results' = results \cup {r}
                    /\ r.reaction_id = last'.id
                    /\ r.average_dodh = Run[last'.in].average_dodh
                    /\ r.graph = savefig(Run[last'.in].fig)
            ELSE results' = results]_vars

(* A second successful run for a reaction, on a different upload.          *)
RunIsAtomicWitness ==
    /\ Succeeded(last)
    /\ \E r1, r2 \in results :
          /\ r1.reaction_id = last.id /\ r2.reaction_id = last.id
          /\ r1.graph # r2.graph /\ r1.average_dodh # r2.average_dodh

(* C3: a run on an upload that keeps at least 1 and fewer than 11 samples  *)
(* ends in the failure of the smoothing and leaves the results table, the  *)
(* rows of the picked reaction included, as it was.                        *)
ShortRunFails ==
    [][IsRun(last') /\ ShortUpload(last'.in[1]) =>
          /\ results' = results
          /\ last'.out[Len(last'.out)] = WindowTooLong
          /\ ~Succeeded(last')]_vars

(* A run on 10 samples, for a reaction that has a result already.          *)
ShortRunFailsWitness ==
    /\ IsRun(last) /\ ShortUpload(last.in[1])
    /\ Retained(last.in[1]) = window_length - 1
    /\ \E r \in results : r.reaction_id = last.id

(* C4: a run surfaces an average only if its smoothing has succeeded: a    *)
(* run that shows the metric has got past the smoothing.                   *)
AverageOnlyAfterSmoothing ==
    IsRun(last) /\ Metric \in Emitted(last) => "render" \in StagesOf(last)

(* C5: a run on an upload that lacks a required column fails on the column *)
(* check, before any filtering, averaging, smoothing, rendering or write,  *)
(* and leaves the results table as it was.                                 *)
MissingColumnFails ==
    [][IsRun(last') /\ LacksColumn(last'.in[1]) =>
          /\ results' = results
          /\ last'.out = <<MissingColumns>>
          /\ StagesOf(last') \subseteq {"parse", "columns"}]_vars

(* A run on a sheet with only one of the two columns, for a reaction that  *)
(* has a result already.                                                   *)
MissingColumnFailsWitness ==
    /\ IsRun(last) /\ LacksColumn(last.in[1])
    /\ MetricColumn \in last.in[1].columns
    /\ \E r \in results : r.reaction_id = last.id

(* C6: a run on an upload of which the filter keeps nothing fails with the *)
(* empty-data error before the average is computed and before smoothing is *)
(* attempted, and leaves the results table as it was.                      *)
EmptyRunFails ==
    [][IsRun(last') /\ EmptyUpload(last'.in[1]) =>
          /\ results' = results
          /\ last'.out = <<EmptyData>>
          /\ StagesOf(last') \cap
                {"average", "metric", "smooth", "render", "write"} = {}]_vars

(* A run on a sheet whose only row lies before the threshold, for a        *)
(* reaction that has a result already.                                     *)
EmptyRunFailsWitness ==
    /\ IsRun(last) /\ EmptyUpload(last.in[1])
    /\ last.in[1].n > 0
    /\ \E r \in results : r.reaction_id = last.id

(* C7: deletes do not cascade: a delete of a synthesis removes exactly the *)
(* synthesis row of that id and leaves the reaction and results tables as  *)
(* they were; a delete of a reaction removes exactly the reaction row of   *)
(* that id and leaves the synthesis and results tables as they were.       *)
DeletesDoNotCascade ==
    [][/\ last'.op = "delete_synthesis" =>
            /\ \E row \in synthesis : row.id = last'.id
            /\ synthesis' = {row \in synthesis : row.id # last'.id}
            /\ reaction' = reaction /\ results' = results
       /\ last'.op = "delete_reaction" =>
            /\ \E row \in reaction : row.id = last'.id
            /\ reaction' = {row \in reaction : row.id # last'.id}
            /\ synthesis' = synthesis /\ results' = results]_vars

(* A synthesis has just been deleted, and a reaction that referenced it,   *)
(* with a result of its own, is still there.                               *)
DeletesDoNotCascadeWitness ==
    /\ last.op = "delete_synthesis"
    /\ \E r \in reaction :
          /\ r.synthesis_id = last.id
          /\ \E res \in results : res.reaction_id = r.id

(* C8: every stored reaction's synthesis_id resolves to a stored synthesis *)
(* of the reaction's owner.                                                *)
ReactionResolves ==
    \A r \in reaction :
        \E sy \in synthesis : sy.id = r.synthesis_id /\ sy.user_id = r.user_id

(* C9: a step taken in user U's session removes only rows that U owns.     *)
DeletionIsScoped ==
    [][LET U == session[last'.s].user_id
       IN /\ \A row \in synthesis \ synthesis' : row.user_id = U
          /\ \A row \in reaction \ reaction' : row.user_id = U
          /\ \A row \in results \ results' : row.user_id = U]_vars

(* A user has just deleted a row while the other user has rows of both     *)
(* kinds.                                                                  *)
DeletionIsScopedWitness ==
    /\ last.op \in {"delete_synthesis", "delete_reaction"}
    /\ \E row \in synthesis : row.user_id # session[last.s].user_id
    /\ \E row \in reaction : row.user_id # session[last.s].user_id

(* C10: the synthesis listing and picker and the reaction listing and      *)
(* picker of a logged-in user hold only rows of that user: no row of       *)
(* another user, and no reaction row joined to another user's synthesis.   *)
ListingsAreScoped ==
    \A s \in Sessions :
        session[s].logged_in =>
            LET U == session[s].user_id
            IN /\ \A row \in synthesis_options(U) : row.user_id = U
               /\ \A row \in reaction_options(U) :
                     row.user_id = U /\ row.synthesis_user_id = U

(* Both users have reactions to list.                                      *)
ListingsAreScopedWitness ==
    \A s \in Sessions :
        /\ session[s].logged_in
        /\ reaction_options(session[s].user_id) # {}
        /\ \E row \in reaction : row.user_id # session[s].user_id

(* The rows of an upload with both values present and a time of at least   *)
(* the threshold, in the order of the sheet.                               *)
RetainedRows(f) ==
    SelectSeq(read_excel(f),
              LAMBDA r : r.t # NaN /\ r.d # NaN /\ r.t >= Threshold)

(* C11: the average a successful run persists is the arithmetic mean of    *)
(* the metric values of the retained rows of its upload, unsmoothed: the   *)
(* row the run wrote holds a fraction equal to their sum over their count. *)
AverageIsMeanOfFiltered ==
    Succeeded(last) =>
        \E r \in results :
            /\ r.id = seq["results"] /\ r.reaction_id = last.id
            /\ LET raw == dodh(RetainedRows(last.in[1]))
               IN /\ r.average_dodh.den > 0
                  /\ r.average_dodh.num * Len(raw) = r.average_dodh.den * Sum(raw)

(* A successful run on a sheet that has a row before the threshold and a   *)
(* row without a metric value, and keeps more samples than one smoothing   *)
(* window (on a single window the smoothing preserves the mean).           *)
AverageIsMeanOfFilteredWitness ==
    /\ Succeeded(last)
    /\ last.in[1].t0 < Threshold /\ last.in[1].hole # 0
    /\ Retained(last.in[1]) > window_length
    /\ \E r \in results : r.id = seq["results"] /\ r.reaction_id = last.id

-----------------------------------------------------------------------------
(* The selection of the samples, lines 267-276, on data frames of every    *)
(* shape: rows in any order, with the time or the metric cell missing, and *)
(* times below, at and above the threshold.                                *)

MaxLen == 3     \* rows of a data frame

Cells == [t : {NaN, Threshold - 1, Threshold, Threshold + 1}, d : {NaN, 5, 6}]
Frames == UNION {[1..n -> Cells] : n \in 0..MaxLen}

(* A frame has been read from an upload with both columns.                 *)
InitFilter ==
    /\ users = {}
    /\ synthesis = {}
    /\ reaction = {}
    /\ results = {}
    /\ seq = [t \in Tables |-> 0]
    /\ session = [s \in Sessions |-> initialize_session_state]
    /\ \E rows \in Frames : last = Ran("s1", "frame", None, rows, <<>>, <<>>)

(* dropna(), to_numpy() and the mask time_on_stream >= 1 on both arrays:   *)
(* the two arrays the rest of the run works on.                            *)
filter_data ==
    /\ last.op = "frame"
    /\ LET kept == valid_indices(dropna(last.in))
       IN last' = Ran(last.s, "filter", None, last.in, <<"dropna", "filter">>,
                      <<time_on_stream(kept), dodh(kept)>>)
    /\ UNCHANGED <<users, synthesis, reaction, results, seq, session>>

NextFilter == filter_data

SpecFilter == InitFilter /\ [][NextFilter]_vars

(* C12: the retained time and metric sequences have the same length, the   *)
(* number of rows of the frame with both values present and a time of at   *)
(* least the threshold, and hold exactly those rows in the order of the    *)
(* frame: the k-th retained sample is the k-th such row.                   *)
RetainedSequences ==
    last.op = "filter" =>
        LET rows == last.in
            ts == last.out[1]
            ds == last.out[2]
            idx == {i \in DOMAIN rows :
                      rows[i].t # NaN /\ rows[i].d # NaN /\ rows[i].t >= Threshold}
            Nth(k) == CHOOSE i \in idx : Cardinality({j \in idx : j < i}) = k - 1
        IN /\ Len(ts) = Len(ds)
           /\ Len(ts) = Cardinality(idx)
           /\ \A k \in 1..Len(ts) :
                 ts[k] = rows[Nth(k)].t /\ ds[k] = rows[Nth(k)].d

(* A frame with a sample at the threshold between a sample before it and a *)
(* row without a metric value has been filtered down to that sample.       *)
RetainedSequencesWitness ==
    /\ last.op = "filter"
    /\ Len(last.in) = 3
    /\ last.in[1].t = Threshold - 1 /\ last.in[1].d # NaN
    /\ last.in[2].t = Threshold /\ last.in[2].d # NaN
    /\ last.in[3].d = NaN
    /\ last.out[1] = <<Threshold>>

(* C13: adding a synthesis with an empty name, or without a user id in the *)
(* session, shows a validation error and leaves the synthesis table as it  *)
(* was; with a name and a user id it adds exactly one row, of that name    *)
(* and owned by the session's user; either way no other table changes.     *)
CreateSynthesisValidates ==
    [][last'.op = "add_synthesis" =>
          LET name == last'.in[1]
              U == session[last'.s].user_id
          IN /\ users' = users /\ reaction' = reaction /\ results' = results
             /\ IF name = "" \/ U = None
                THEN /\ synthesis' = synthesis
                     /\ last'.out = <<Msg("error", "fill all fields")>>
                ELSE \E row \in synthesis' \ synthesis :
                        /\ synthesis' = synthesis \cup {row}
                        /\ row.user_id = U /\ row.name = name]_vars

(* A synthesis without a name has just been refused, with rows of both     *)
(* users in the table.                                                     *)
CreateSynthesisValidatesWitness ==
    /\ last.op = "add_synthesis" /\ last.in = <<"">>
    /\ \E row \in synthesis : row.user_id = session[last.s].user_id
    /\ \E row \in synthesis : row.user_id # session[last.s].user_id

(* C14: every failure of a run, at whichever stage, ends the run in        *)
(* exactly one error message, the one of that failure; a run shows either  *)
(* "Results saved!" or an error, never both and never neither.             *)
FailuresAreCaught ==
    IsRun(last) =>
        LET f == last.in[1]
            fault == last.in[2]
            errors == {i \in DOMAIN last.out : last.out[i].w = "error"}
        IN /\ Cardinality(errors) <= 1
           /\ (Saved \in Emitted(last)) <=> (errors = {})
           /\ ~f.parse_ok => ParseError \in Emitted(last)
           /\ LacksColumn(f) => MissingColumns \in Emitted(last)
           /\ EmptyUpload(f) => EmptyData \in Emitted(last)
           /\ ShortUpload(f) => WindowTooLong \in Emitted(last)
           /\ fault = "render" => RenderError \in Emitted(last)
           /\ fault = "write" => WriteError \in Emitted(last)

(* A run whose INSERT raised, for a reaction that has a result of an       *)
(* earlier run.                                                            *)
FailuresAreCaughtWitness ==
    /\ IsRun(last) /\ last.in[2] = "write"
    /\ last.out = <<Metric, WriteError>>
    /\ \E r \in results : r.reaction_id = last.id

-----------------------------------------------------------------------------
(* The accounts and the sessions alone: sign-up, login and logout in two   *)
(* browser sessions, from the first start of the application.              *)
NextAuth ==
    \/ \E s \in Sessions, u \in Usernames, p \in SignupPasswords : signup(s, u, p)
    \/ \E s \in Sessions : signup_back(s)
    \/ \E s \in Sessions, u \in Usernames, p \in Passwords : login(s, u, p)
    \/ \E s \in Sessions : login_to_signup(s)
    \/ \E s \in Sessions : render_logout(s)
    \/ \E s \in Sessions, section \in Sections : sidebar(s, section)

SpecAuth == Init /\ [][NextAuth]_vars

(* C15: a sign-up with a username that is taken shows an error and leaves  *)
(* the users table and the session as they were; a sign-up with an empty   *)
(* username or password creates no row; any other sign-up adds one row of  *)
(* that username; and no two rows of the users table ever have the same    *)
(* username.                                                               *)
SignupKeepsUsernamesUnique ==
    [][/\ \A u1, u2 \in users' : u1.username = u2.username => u1 = u2
       /\ last'.op = "signup" =>
            LET username == last'.in[1]
                password == last'.in[2]
            IN IF username = "" \/ password = ""
               THEN users' = users
               ELSE IF \E u \in users : u.username = username
               THEN /\ users' = users /\ session' = session
                    /\ last'.out = <<Msg("error", "username exists")>>
               ELSE \E row \in users' \ users :
                       users' = users \cup {row} /\ row.username = username]_vars

(* A sign-up with the name of one of two accounts has just been refused.   *)
SignupKeepsUsernamesUniqueWitness ==
    /\ last.op = "signup"
    /\ last.out = <<Msg("error", "username exists")>>
    /\ \E u \in users : u.username = last.in[1]
    /\ Cardinality(users) = 2

(* A reaction whose synthesis is no longer stored.                         *)
Orphan(r) == ~\E sy \in synthesis : sy.id = r.synthesis_id

(* C16: a delete of a synthesis leaves the reactions that referenced it in *)
(* the table; and a reaction whose synthesis is gone is in no session's    *)
(* reaction listing, and no step changes that: the reaction stays stored,  *)
(* its synthesis id stays unresolved, no run and no delete is made on it,  *)
(* and its result rows stay exactly as they are.                           *)
OrphansStayOutOfReach ==
    [][/\ last'.op = "delete_synthesis" =>
            \A r \in reaction :
                r.synthesis_id = last'.id =>
                    r \in reaction' /\ ~\E sy \in synthesis' : sy.id = last'.id
       /\ \A r \in reaction :
            Orphan(r) =>
                /\ \A s \in Sessions :
                      r.id \notin {row.id : row \in reaction_options(session[s].user_id)}
                /\ r \in reaction'
                /\ ~\E sy \in synthesis' : sy.id = r.synthesis_id
                /\ ~(last'.op \in {"run", "delete_reaction"} /\ last'.id = r.id)
                /\ {res \in results' : res.reaction_id = r.id}
                      = {res \in results : res.reaction_id = r.id}]_vars

(* The owner of a reaction that has a result and has lost its synthesis    *)
(* has just added another synthesis.                                       *)
OrphansStayOutOfReachWitness ==
    /\ last.op = "add_synthesis" /\ last.id # None
    /\ \E r \in reaction :
          /\ Orphan(r)
          /\ r.user_id = session[last.s].user_id
          /\ \E res \in results : res.reaction_id = r.id

(* C17: every result row has the owner of the reaction it references, as   *)
(* long as that reaction is stored; and the reaction of a run that has     *)
(* just saved a result is a reaction of the user of that session.          *)
ResultOwnerMatches ==
    /\ \A res \in results, r \in reaction :
          res.reaction_id = r.id => res.user_id = r.user_id
    /\ Succeeded(last) =>
          \A r \in reaction :
              r.id = last.id => r.user_id = session[last.s].user_id

(* A run has just saved a result for a stored reaction while the other     *)
(* user has data of their own.                                             *)
ResultOwnerMatchesWitness ==
    /\ Succeeded(last)
    /\ \E r \in reaction, res \in results :
          /\ r.id = last.id /\ res.reaction_id = r.id
          /\ \E row \in synthesis : row.user_id # r.user_id

-----------------------------------------------------------------------------
(* The accounts, the sessions and the data together, from the first start  *)
(* of the application, with few rows: main() runs the handler of a section *)
(* in a session that is logged in, and login() or signup() in one that is  *)
(* not.                                                                    *)

GateRows == 3   \* rows ever inserted into the data tables under SpecGate

NextGate ==
    \/ \E s \in Sessions, u \in Usernames, p \in SignupPasswords : signup(s, u, p)
    \/ \E s \in Sessions : signup_back(s)
    \/ \E s \in Sessions, u \in Usernames, p \in Passwords : login(s, u, p)
    \/ \E s \in Sessions : login_to_signup(s)
    \/ \E s \in Sessions : render_logout(s)
    \/ Inserted < GateRows /\ \E s \in Sessions, n \in Names : synthesis_section(s, n)
    \/ Inserted < GateRows /\ \E s \in Sessions, l \in Labels : reaction_section(s, l)
    \/ \E s \in Sessions : reaction_section_none(s)
    \/ Inserted < GateRows /\ \E s \in Sessions, l \in Labels : result_section(s, l)
    \/ \E s \in Sessions : result_section_none(s)
    \/ \E s \in Sessions, id \in Ids : view_data_delete_synthesis(s, id)
    \/ \E s \in Sessions, id \in Ids : view_data_delete_reaction(s, id)

SpecGate == Init /\ [][NextGate]_vars

(* The runs of the handlers of the four sections.                          *)
HandlerOps ==
    {"add_synthesis", "add_reaction", "run", "delete_synthesis", "delete_reaction"}

(* The accounts a login attempt matches: the username is stored, with the  *)
(* hash of the password supplied.                                          *)
Matching(attempt) ==
    {u \in users : u.username = attempt[1]
                     /\ u.password = hash_password(attempt[2])}

(* C18: a session becomes logged in only by a login attempt of its own     *)
(* that matches a stored account, and then holds the id of that account    *)
(* until it logs out; the handlers of the sections run only in sessions    *)
(* that are logged in; and a login attempt that matches no account, empty  *)
(* fields included, leaves the session state as it was.                    *)
SessionGating ==
    [][/\ \A s \in Sessions :
            /\ session'[s].logged_in =>
                  \E u \in users' : u.id = session'[s].user_id
            /\ session'[s].logged_in /\ ~session[s].logged_in =>
                  /\ last'.op = "login" /\ last'.s = s
                  /\ \E u \in Matching(last'.in) : session'[s].user_id = u.id
            /\ session'[s].logged_in /\ session[s].logged_in =>
                  session'[s].user_id = session[s].user_id
       /\ last'.op \in HandlerOps =>
            session[last'.s].logged_in /\ session'[last'.s].logged_in
       /\ last'.op = "login" /\ Matching(last'.in) = {} =>
            /\ session' = session
            /\ \E i \in DOMAIN last'.out : last'.out[i].w = "error"]_vars

(* A login with the password of another account has just been refused in  *)
(* one session while the other session is logged in and has saved a        *)
(* result.                                                                 *)
SessionGatingWitness ==
    /\ last.op = "login" /\ last.id = None
    /\ \E u \in users : u.username = last.in[1]
    /\ last.in[2] = "zz"
    /\ ~session[last.s].logged_in
    /\ \E s \in Sessions :
          /\ session[s].logged_in
          /\ \E res \in results : res.user_id = session[s].user_id

====
